---- MODULE Spec2Model ----
(***************************************************************************)
(* A model of the ESP32 iBeacon firmware (src/main/main.c): the identity   *)
(* store (load_beacon_config_from_nvs, save_beacon_config_to_nvs), the     *)
(* start of app_main, the GAP event handler that drives advertising, and   *)
(* the OTA update task.                                                    *)
(*                                                                         *)
(* The firmware's parts are checked under separate specifications that     *)
(* share one set of variables:                                             *)
(*   SpecStore  the identity store's two functions, called with arbitrary  *)
(*              arguments and storage outcomes                             *)
(*   SpecBoot   app_main from nvs_flash_init to the first-boot save,       *)
(*              over several boots                                         *)
(*   SpecGap    bluetooth_init, start_ibeacon and gap_event_handler        *)
(*   SpecOta    ota_task and perform_ota_update                            *)
(*   SpecOtaFair  SpecOta with the scheduler's fairness                    *)
(*   SpecWifi   wifi_init_sta and wifi_event_handler                       *)
(*   SpecWifiFair  SpecWifi with the fairness of the scheduler and of the  *)
(*              WiFi driver                                                *)
(*   SpecMain   app_main from its first step to its last, with the tasks   *)
(*              and callbacks it creates                                   *)
(*   SpecCodec  the iBeacon packet codec of esp_ibeacon_api.h              *)
(*   SpecUuid   parse_uuid_string, called with canonical and other strings *)
(***************************************************************************)
EXTENDS Integers, Sequences, FiniteSets, TLC

VARIABLES
    g_beacon_major,   \* static uint16_t g_beacon_major
    g_beacon_minor,   \* static uint16_t g_beacon_minor
    nvs_ns,           \* flash: does namespace "beacon_cfg" exist
    nvs_kv,           \* flash: the keys of the namespace and their values
    last_op,          \* the identity-store operation that ran last
    load_ret,         \* what load_beacon_config_from_nvs returned, when it
                      \* ran last (FALSE otherwise)
    save_ret,         \* what save_beacon_config_to_nvs returned, when it
                      \* ran last (ESP_OK otherwise)
    nvs_trace,        \* the NVS API calls of the last store operation
    committed,        \* history: <<major, minor>> of a save that returned
                      \* ESP_OK and was not disturbed since, else <<>>
    main_pc,          \* where app_main is
    config_loaded,    \* app_main's local config_loaded
    saves_in_boot,    \* history: save calls app_main made in this boot
    boots,            \* history: number of boots so far
    boot_log,         \* what app_main did in this boot, in order
    gap_registered,   \* gap_event_handler is registered with the stack
    radio_log,        \* radio commands issued and GAP events received
    device_name,      \* the name given to esp_ble_gap_set_device_name
    ota_pc,           \* where ota_task is
    ota_ret,          \* ret of the last esp_https_ota call
    ota_log,          \* what the current update cycle did, in order
    ota_cycles,       \* history: update checks performed since boot
    ota_graces,       \* history: initial grace delays taken since boot
    webhook_result,   \* how the last notification's delivery ended
    ota_delay_ms,     \* the last vTaskDelay of ota_task's own body, in ms
    s_retry_num,      \* static int s_retry_num
    wifi_bits,        \* the bits set in s_wifi_event_group
    wifi_sta_start,   \* WIFI_EVENT_STA_START is raised and not yet handled
    wifi_attempt,     \* an esp_wifi_connect attempt is in progress
    wifi_link,        \* the station holds an IP address
    wifi_connects,    \* history: esp_wifi_connect calls since esp_wifi_start
    wifi_drops,       \* history: losses of an established link
    wifi_result,      \* the branch wifi_init_sta took after its wait
    webhook_task,     \* the webhook task: "none", "created" or "deleted"
    webhook_ident,    \* the identity webhook_task put in its payload
    codec_pc,         \* the codec harness: which function runs next
    codec_in,         \* the identity given to the encoder
    codec_packet,     \* the advertising payload the encoder produced
    codec_ok,         \* what esp_ble_is_ibeacon_packet said of it
    codec_out,        \* the identity read back from the payload
    uuid_pc,          \* the UUID parser harness: "idle" or "parsed"
    uuid_str,         \* the characters of the input before its terminator
    uuid_tail,        \* what memory holds after the terminator
    uuid_bytes,       \* the caller's 16-byte buffer, indexed from 0
    uuid_reads,       \* history: the indices of uuid_str that were read
    uuid_writes       \* history: the indices of uuid_bytes written, in order

vars == <<g_beacon_major, g_beacon_minor, nvs_ns, nvs_kv, last_op, load_ret,
          save_ret, nvs_trace, committed, main_pc, config_loaded,
          saves_in_boot, boots, boot_log, gap_registered, radio_log,
          device_name,
          ota_pc, ota_ret, ota_log, ota_cycles, ota_graces, webhook_result,
          ota_delay_ms, s_retry_num, wifi_bits, wifi_sta_start, wifi_attempt,
          wifi_link, wifi_connects, wifi_drops, wifi_result, webhook_task,
          webhook_ident, codec_pc, codec_in, codec_packet, codec_ok,
          codec_out, uuid_pc, uuid_str, uuid_tail, uuid_bytes, uuid_reads,
          uuid_writes>>

storeVars == <<nvs_ns, nvs_kv, last_op, load_ret, save_ret, nvs_trace,
               committed>>
identVars == <<g_beacon_major, g_beacon_minor>>
bootVars  == <<main_pc, config_loaded, saves_in_boot, boots, boot_log>>
gapVars   == <<gap_registered, radio_log, device_name>>
otaVars   == <<ota_pc, ota_ret, ota_log, ota_cycles, ota_graces,
               webhook_result, ota_delay_ms>>
wifiVars  == <<s_retry_num, wifi_bits, wifi_sta_start, wifi_attempt,
               wifi_link, wifi_connects, wifi_drops, wifi_result,
               webhook_task, webhook_ident>>
codecVars == <<codec_pc, codec_in, codec_packet, codec_ok, codec_out>>
uuidVars  == <<uuid_pc, uuid_str, uuid_tail, uuid_bytes, uuid_reads,
               uuid_writes>>

----------------------------------------------------------------------------
(* Program constants and the platform's error codes.                       *)

DEFAULT_BEACON_MAJOR == 100
DEFAULT_BEACON_MINOR == 15

ESP_OK == 0
ESP_FAIL == -1
ESP_ERR_NOT_FOUND == 261
ESP_ERR_TIMEOUT == 263
ESP_ERR_NVS_NOT_FOUND == 4354
ESP_ERR_NVS_NOT_ENOUGH_SPACE == 4357
ESP_ERR_NVS_NO_FREE_PAGES == 4365
ESP_ERR_NVS_NEW_VERSION_FOUND == 4368

\* The 16-bit identity values the checks range over: both compiled-in
\* defaults and a value that is neither.
U16Samples == {DEFAULT_BEACON_MINOR, 77, DEFAULT_BEACON_MAJOR}

NVS_KEY_MAJOR == "major"
NVS_KEY_MINOR == "minor"
NvsKeys == {NVS_KEY_MAJOR, NVS_KEY_MINOR}

\* The contents a namespace can have: any subset of the two keys.
NvsContents == UNION {[K -> U16Samples] : K \in SUBSET NvsKeys}
NoKeys == [k \in {} |-> 0]

----------------------------------------------------------------------------
(* The identity store.                                                     *)
(*                                                                         *)
(* Flash is the pair (nvs_ns, nvs_kv).  Reads answer from flash: a         *)
(* read-only open succeeds iff the namespace exists, a get succeeds iff    *)
(* the key exists.  Writes can fail, and a value set but not committed     *)
(* may or may not have reached flash when the handle is closed.            *)

NvsCall(call, ret) == [call |-> call, ret |-> ret]

\* nvs_open(NVS_NAMESPACE, NVS_READONLY, &nvs_handle)
nvs_open_readonly(ns) == IF ns THEN ESP_OK ELSE ESP_ERR_NVS_NOT_FOUND

\* nvs_get_u16(nvs_handle, key, &out)
nvs_get_u16(kv, key) ==
    IF key \in DOMAIN kv THEN ESP_OK ELSE ESP_ERR_NVS_NOT_FOUND

\* A Load that gives up on the stored values as soon as one key is missing.
LoadKey_AllOrNothing(kv, key, default) ==
    IF DOMAIN kv # NvsKeys THEN default ELSE kv[key]

\* One key of Load: the stored value, or the default when the get fails.
LoadKey(kv, key, default) ==
    IF nvs_get_u16(kv, key) # ESP_OK THEN default ELSE kv[key]

\* load_beacon_config_from_nvs as a function of flash and the identity.
LoadResult(ns, kv, major, minor) ==
    IF nvs_open_readonly(ns) # ESP_OK
    THEN [ret   |-> FALSE,
          major |-> major,
          minor |-> minor,
          trace |-> <<NvsCall("nvs_open", nvs_open_readonly(ns))>>]
    ELSE [ret   |-> TRUE,
          major |-> LoadKey(kv, NVS_KEY_MAJOR, DEFAULT_BEACON_MAJOR),
          minor |-> LoadKey(kv, NVS_KEY_MINOR, DEFAULT_BEACON_MINOR),
          trace |-> <<NvsCall("nvs_open", ESP_OK),
                      NvsCall("nvs_get_u16:major",
                              nvs_get_u16(kv, NVS_KEY_MAJOR)),
                      NvsCall("nvs_get_u16:minor",
                              nvs_get_u16(kv, NVS_KEY_MINOR)),
                      NvsCall("nvs_close", ESP_OK)>>]

\* What the storage layer does to one save call: the call that fails (or
\* "none"), its error code, and which of the values set before the failure
\* reached flash although no commit succeeded.
NvsWriteErrs == {ESP_FAIL, ESP_ERR_NVS_NOT_ENOUGH_SPACE}
SaveEnvs ==
    {[at |-> "none", err |-> ESP_OK, flushed |-> {}]}
    \cup {[at |-> "nvs_open", err |-> e, flushed |-> {}] : e \in NvsWriteErrs}
    \cup {[at |-> "set_major", err |-> e, flushed |-> {}] : e \in NvsWriteErrs}
    \cup {[at |-> "set_minor", err |-> e, flushed |-> f] :
             e \in NvsWriteErrs, f \in SUBSET {NVS_KEY_MAJOR}}
    \cup {[at |-> "nvs_commit", err |-> e, flushed |-> f] :
             e \in NvsWriteErrs, f \in SUBSET NvsKeys}

\* The value save_beacon_config_to_nvs returns: the failing call's error.
SaveErr(env) == IF env.at = "none" THEN ESP_OK ELSE env.err

\* A save that assigns the identity before it knows the commit's result.
SaveIdentity_BeforeCommit(err, major, minor, cur) == <<major, minor>>

\* The identity after save: assigned only when nvs_commit returned ESP_OK.
SaveIdentity(err, major, minor, cur) ==
    IF err = ESP_OK THEN <<major, minor>> ELSE cur

\* The keys whose new value is in flash after the call.
SaveWritten(env) ==
    CASE env.at = "none" -> NvsKeys
      [] env.at \in {"nvs_open", "set_major"} -> {}
      [] OTHER -> env.flushed

\* A save that writes the minor value under both keys.
SaveFlash_MinorTwice(kv, major, minor, env) ==
    [k \in DOMAIN kv \cup SaveWritten(env) |->
        IF k \in SaveWritten(env) THEN minor ELSE kv[k]]

\* Flash after save: the function never undoes a value it has set.
SaveFlash(kv, major, minor, env) ==
    [k \in DOMAIN kv \cup SaveWritten(env) |->
        IF k \in SaveWritten(env)
        THEN (IF k = NVS_KEY_MAJOR THEN major ELSE minor)
        ELSE kv[k]]

\* A save that returns from a failed nvs_set_u16 of the minor without
\* closing the handle.
SaveTrace_LeakOnSetMinor(env) ==
    CASE env.at = "nvs_open" ->
            <<NvsCall("nvs_open", env.err)>>
      [] env.at = "set_major" ->
            <<NvsCall("nvs_open", ESP_OK),
              NvsCall("nvs_set_u16:major", env.err),
              NvsCall("nvs_close", ESP_OK)>>
      [] env.at = "set_minor" ->
            <<NvsCall("nvs_open", ESP_OK),
              NvsCall("nvs_set_u16:major", ESP_OK),
              NvsCall("nvs_set_u16:minor", env.err)>>
      [] OTHER ->
            <<NvsCall("nvs_open", ESP_OK),
              NvsCall("nvs_set_u16:major", ESP_OK),
              NvsCall("nvs_set_u16:minor", ESP_OK),
              NvsCall("nvs_commit", SaveErr(env)),
              NvsCall("nvs_close", ESP_OK)>>

\* The NVS calls save makes, in order, with their results.
SaveTrace(env) ==
    CASE env.at = "nvs_open" ->
            <<NvsCall("nvs_open", env.err)>>
      [] env.at = "set_major" ->
            <<NvsCall("nvs_open", ESP_OK),
              NvsCall("nvs_set_u16:major", env.err),
              NvsCall("nvs_close", ESP_OK)>>
      [] env.at = "set_minor" ->
            <<NvsCall("nvs_open", ESP_OK),
              NvsCall("nvs_set_u16:major", ESP_OK),
              NvsCall("nvs_set_u16:minor", env.err),
              NvsCall("nvs_close", ESP_OK)>>
      [] OTHER ->
            <<NvsCall("nvs_open", ESP_OK),
              NvsCall("nvs_set_u16:major", ESP_OK),
              NvsCall("nvs_set_u16:minor", ESP_OK),
              NvsCall("nvs_commit", SaveErr(env)),
              NvsCall("nvs_close", ESP_OK)>>

\* save_beacon_config_to_nvs(major, minor) as a function of flash, the
\* identity and the storage outcome.
SaveResult(ns, kv, cur, major, minor, env) ==
    [ret   |-> SaveErr(env),
     ident |-> SaveIdentity(SaveErr(env), major, minor, cur),
     ns    |-> (ns \/ env.at # "nvs_open"),
     kv    |-> IF env.at = "nvs_open" THEN kv
               ELSE SaveFlash(kv, major, minor, env),
     trace |-> SaveTrace(env)]

\* The history of the last undisturbed successful save.
CommittedAfter(r, kv, major, minor) ==
    IF r.ret = ESP_OK THEN <<major, minor>>
    ELSE IF r.kv = kv THEN committed
    ELSE <<>>

load_beacon_config_from_nvs ==
    LET r == LoadResult(nvs_ns, nvs_kv, g_beacon_major, g_beacon_minor) IN
    /\ g_beacon_major' = r.major
    /\ g_beacon_minor' = r.minor
    /\ load_ret' = r.ret
    /\ nvs_trace' = r.trace
    /\ last_op' = "load"
    /\ save_ret' = ESP_OK
    /\ UNCHANGED <<nvs_ns, nvs_kv, committed>>

save_beacon_config_to_nvs(major, minor, env) ==
    LET r == SaveResult(nvs_ns, nvs_kv, <<g_beacon_major, g_beacon_minor>>,
                        major, minor, env) IN
    /\ g_beacon_major' = r.ident[1]
    /\ g_beacon_minor' = r.ident[2]
    /\ nvs_ns' = r.ns
    /\ nvs_kv' = r.kv
    /\ save_ret' = r.ret
    /\ nvs_trace' = r.trace
    /\ committed' = CommittedAfter(r, nvs_kv, major, minor)
    /\ last_op' = "save"
    /\ load_ret' = FALSE

\* A key of the namespace is erased from outside the firmware.
ExternalErase(key) ==
    /\ nvs_ns
    /\ key \in DOMAIN nvs_kv
    /\ nvs_kv' = [k \in DOMAIN nvs_kv \ {key} |-> nvs_kv[k]]
    /\ committed' = <<>>
    /\ last_op' = "erase_key"
    /\ load_ret' = FALSE
    /\ save_ret' = ESP_OK
    /\ nvs_trace' = <<>>
    /\ UNCHANGED <<nvs_ns, g_beacon_major, g_beacon_minor>>

\* A restart: the statics get their initialisers again, flash stays.
StoreReset ==
    /\ g_beacon_major' = DEFAULT_BEACON_MAJOR
    /\ g_beacon_minor' = DEFAULT_BEACON_MINOR
    /\ last_op' = "reset"
    /\ load_ret' = FALSE
    /\ save_ret' = ESP_OK
    /\ nvs_trace' = <<>>
    /\ UNCHANGED <<nvs_ns, nvs_kv, committed>>

InitIdent ==
    /\ g_beacon_major = DEFAULT_BEACON_MAJOR
    /\ g_beacon_minor = DEFAULT_BEACON_MINOR

InitStoreFresh ==
    /\ nvs_ns = FALSE
    /\ nvs_kv = NoKeys
    /\ last_op = "none"
    /\ load_ret = FALSE
    /\ save_ret = ESP_OK
    /\ nvs_trace = <<>>
    /\ committed = <<>>

InitBootIdle ==
    /\ main_pc = "idle"
    /\ config_loaded = FALSE
    /\ saves_in_boot = 0
    /\ boots = 0
    /\ boot_log = <<>>

InitGapIdle ==
    /\ gap_registered = FALSE
    /\ radio_log = <<>>
    /\ device_name = ""

InitOtaIdle ==
    /\ ota_pc = "idle"
    /\ ota_ret = ESP_OK
    /\ ota_log = <<>>
    /\ ota_cycles = 0
    /\ ota_graces = 0
    /\ webhook_result = "none"
    /\ ota_delay_ms = 0

InitWifiIdle ==
    /\ s_retry_num = 0
    /\ wifi_bits = {}
    /\ wifi_sta_start = FALSE
    /\ wifi_attempt = FALSE
    /\ wifi_link = FALSE
    /\ wifi_connects = 0
    /\ wifi_drops = 0
    /\ wifi_result = "none"
    /\ webhook_task = "none"
    /\ webhook_ident = <<>>

InitCodecIdle ==
    /\ codec_pc = "idle"
    /\ codec_in = <<>>
    /\ codec_packet = <<>>
    /\ codec_ok = FALSE
    /\ codec_out = <<>>

InitUuidIdle ==
    /\ uuid_pc = "idle"
    /\ uuid_str = <<>>
    /\ uuid_tail = <<>>
    /\ uuid_bytes = <<>>
    /\ uuid_reads = {}
    /\ uuid_writes = <<>>

InitStore == InitIdent /\ InitStoreFresh /\ InitBootIdle /\ InitGapIdle
             /\ InitOtaIdle /\ InitWifiIdle /\ InitCodecIdle /\ InitUuidIdle

StoreLoad ==
    load_beacon_config_from_nvs
    /\ UNCHANGED <<bootVars, gapVars, otaVars, wifiVars, codecVars, uuidVars>>

StoreSave ==
    \E major \in U16Samples, minor \in U16Samples, env \in SaveEnvs :
        /\ save_beacon_config_to_nvs(major, minor, env)
        /\ UNCHANGED <<bootVars, gapVars, otaVars, wifiVars, codecVars,
                       uuidVars>>

StoreErase ==
    \E key \in NvsKeys :
        ExternalErase(key)
        /\ UNCHANGED <<bootVars, gapVars, otaVars, wifiVars, codecVars,
                       uuidVars>>

StoreRestart ==
    StoreReset /\ UNCHANGED <<bootVars, gapVars, otaVars, wifiVars, codecVars,
                              uuidVars>>

NextStore == StoreLoad \/ StoreSave \/ StoreErase \/ StoreRestart

SpecStore == InitStore /\ [][NextStore]_vars

----------------------------------------------------------------------------
(* app_main, from storage initialisation to the first-boot save.           *)

MaxBoots == 3

NvsInitResults == {ESP_OK, ESP_ERR_NVS_NO_FREE_PAGES,
                   ESP_ERR_NVS_NEW_VERSION_FOUND, ESP_FAIL}

\* ret == ESP_ERR_NVS_NO_FREE_PAGES || ret == ESP_ERR_NVS_NEW_VERSION_FOUND
NeedsErase(ret) ==
    ret \in {ESP_ERR_NVS_NO_FREE_PAGES, ESP_ERR_NVS_NEW_VERSION_FOUND}

\* A recovery that takes the retry for successful whatever it returned.
NvsInitFinal_IgnoreRetry(ret1, erase_ret, ret2) ==
    IF NeedsErase(ret1) THEN erase_ret ELSE ret1

\* The value ESP_ERROR_CHECK sees last: a failed erase aborts at once,
\* otherwise the result of the last nvs_flash_init.
NvsInitFinal(ret1, erase_ret, ret2) ==
    IF NeedsErase(ret1)
    THEN (IF erase_ret # ESP_OK THEN erase_ret ELSE ret2)
    ELSE ret1

NvsInitSteps(ret1, erase_ret, ret2) ==
    IF NeedsErase(ret1)
    THEN (IF erase_ret # ESP_OK
          THEN <<"nvs_flash_init", "nvs_flash_erase">>
          ELSE <<"nvs_flash_init", "nvs_flash_erase", "nvs_flash_init">>)
    ELSE <<"nvs_flash_init">>

\* An app_main that joins the network before it loads the identity.
AppMainOrder_LoadAfterJoin ==
    <<"nvs_init", "wifi_init", "wifi_wait", "load_config", "bt_controller",
      "bluetooth_init", "start_ibeacon", "create_ota_task", "done">>

\* The statements of app_main in the order of its text; wifi_init_sta is
\* the two steps "wifi_init" (up to esp_wifi_start) and "wifi_wait" (the
\* wait for the event bits and what follows it).
AppMainOrder ==
    <<"nvs_init", "load_config", "wifi_init", "wifi_wait", "bt_controller",
      "bluetooth_init", "start_ibeacon", "create_ota_task", "done">>

\* The statement app_main runs when it is through the statement pc.
AppMainNext(pc) ==
    LET i == CHOOSE k \in 1..Len(AppMainOrder) : AppMainOrder[k] = pc
    IN  AppMainOrder[i + 1]

\* nvs_flash_init, with one erase and retry, and ESP_ERROR_CHECK.
app_main_nvs_init(ret1, erase_ret, ret2) ==
    /\ main_pc = "nvs_init"
    /\ boot_log' = boot_log \o NvsInitSteps(ret1, erase_ret, ret2)
    /\ main_pc' = IF NvsInitFinal(ret1, erase_ret, ret2) = ESP_OK
                  THEN AppMainNext("nvs_init") ELSE "aborted"
    /\ IF NeedsErase(ret1) /\ erase_ret = ESP_OK
       THEN /\ nvs_ns' = FALSE
            /\ nvs_kv' = NoKeys
            /\ committed' = <<>>
       ELSE UNCHANGED <<nvs_ns, nvs_kv, committed>>
    /\ UNCHANGED <<last_op, load_ret, save_ret, nvs_trace, identVars,
                   config_loaded, saves_in_boot, boots>>

\* !config_loaded && g_beacon_minor != DEFAULT_BEACON_MINOR
FirstBootSave(loaded, minor) == ~loaded /\ minor # DEFAULT_BEACON_MINOR

\* The load of the identity and the first-boot save of app_main.
app_main_load_config(env) ==
    /\ main_pc = "load_config"
    /\ LET l == LoadResult(nvs_ns, nvs_kv, g_beacon_major, g_beacon_minor)
           r == SaveResult(nvs_ns, nvs_kv, <<l.major, l.minor>>,
                           l.major, l.minor, env)
       IN  IF FirstBootSave(l.ret, l.minor)
           THEN /\ g_beacon_major' = r.ident[1]
                /\ g_beacon_minor' = r.ident[2]
                /\ nvs_ns' = r.ns
                /\ nvs_kv' = r.kv
                /\ save_ret' = r.ret
                /\ load_ret' = FALSE
                /\ nvs_trace' = r.trace
                /\ committed' = CommittedAfter(r, nvs_kv, l.major, l.minor)
                /\ last_op' = "save"
                /\ saves_in_boot' = saves_in_boot + 1
                /\ boot_log' = boot_log \o <<"load_beacon_config_from_nvs",
                                             "save_beacon_config_to_nvs">>
                /\ config_loaded' = l.ret
           ELSE /\ g_beacon_major' = l.major
                /\ g_beacon_minor' = l.minor
                /\ load_ret' = l.ret
                /\ save_ret' = ESP_OK
                /\ nvs_trace' = l.trace
                /\ last_op' = "load"
                /\ boot_log' = Append(boot_log, "load_beacon_config_from_nvs")
                /\ config_loaded' = l.ret
                /\ UNCHANGED <<nvs_ns, nvs_kv, committed, saves_in_boot>>
    /\ main_pc' = AppMainNext("load_config")
    /\ UNCHANGED boots

\* The device restarts (after an abort, a power cycle or esp_restart):
\* app_main runs again with the statics at their initialisers.
DeviceRestart ==
    /\ main_pc # "idle"
    /\ boots < MaxBoots
    /\ boots' = boots + 1
    /\ main_pc' = "nvs_init"
    /\ config_loaded' = FALSE
    /\ saves_in_boot' = 0
    /\ boot_log' = <<>>
    /\ g_beacon_major' = DEFAULT_BEACON_MAJOR
    /\ g_beacon_minor' = DEFAULT_BEACON_MINOR
    /\ last_op' = "reset"
    /\ load_ret' = FALSE
    /\ save_ret' = ESP_OK
    /\ nvs_trace' = <<>>
    /\ UNCHANGED <<nvs_ns, nvs_kv, committed>>

\* The first boot finds flash as the factory or an earlier provisioning
\* left it: no namespace, or a namespace with any of the two keys.
InitBoot ==
    /\ InitIdent
    /\ nvs_ns \in BOOLEAN
    /\ nvs_kv \in NvsContents
    /\ (~nvs_ns => nvs_kv = NoKeys)
    /\ last_op = "none"
    /\ load_ret = FALSE
    /\ save_ret = ESP_OK
    /\ nvs_trace = <<>>
    /\ committed = <<>>
    /\ main_pc = "nvs_init"
    /\ config_loaded = FALSE
    /\ saves_in_boot = 0
    /\ boots = 1
    /\ boot_log = <<>>
    /\ InitGapIdle
    /\ InitOtaIdle
    /\ InitWifiIdle
    /\ InitCodecIdle /\ InitUuidIdle

BootNvsInit ==
    \E ret1 \in NvsInitResults, erase_ret \in {ESP_OK, ESP_FAIL},
       ret2 \in NvsInitResults :
        /\ app_main_nvs_init(ret1, erase_ret, ret2)
        /\ UNCHANGED <<gapVars, otaVars, wifiVars, codecVars, uuidVars>>

BootLoadConfig ==
    \E env \in SaveEnvs :
        app_main_load_config(env)
        /\ UNCHANGED <<gapVars, otaVars, wifiVars, codecVars, uuidVars>>

BootRestart ==
    DeviceRestart /\ UNCHANGED <<gapVars, otaVars, wifiVars, codecVars,
                                 uuidVars>>

NextBoot == BootNvsInit \/ BootLoadConfig \/ BootRestart

SpecBoot == InitBoot /\ [][NextBoot]_vars

----------------------------------------------------------------------------
(* Advertising: bluetooth_init, start_ibeacon and gap_event_handler.       *)
(*                                                                         *)
(* radio_log holds, in order, the radio commands the firmware issued and   *)
(* the GAP events its handler received.  The stack calls the handler only  *)
(* once it is registered; it raises ADV_DATA_RAW_SET_COMPLETE only after a *)
(* payload was configured and ADV_START_COMPLETE only after a start was    *)
(* asked for, but it may raise either more than once.                      *)

MaxGapEvents == 4

CMD_CONFIG_ADV_DATA == "cmd:esp_ble_gap_config_adv_data_raw"
CMD_TX_POWER_SET    == "cmd:esp_ble_tx_power_set"
CMD_START_ADV       == "cmd:esp_ble_gap_start_advertising"
EVT_RAW_SET_COMPLETE  == "evt:ESP_GAP_BLE_ADV_DATA_RAW_SET_COMPLETE_EVT"
EVT_START_COMPLETE_OK == "evt:ESP_GAP_BLE_ADV_START_COMPLETE_EVT:success"
EVT_START_COMPLETE_FAIL == "evt:ESP_GAP_BLE_ADV_START_COMPLETE_EVT:failure"
EVT_OTHER == "evt:ESP_GAP_BLE_ADV_STOP_COMPLETE_EVT"

RadioCommands == {CMD_CONFIG_ADV_DATA, CMD_TX_POWER_SET, CMD_START_ADV}
GapEvents == {EVT_RAW_SET_COMPLETE, EVT_START_COMPLETE_OK,
              EVT_START_COMPLETE_FAIL, EVT_OTHER}

Count(log, x) == Cardinality({i \in 1..Len(log) : log[i] = x})
CountIn(log, S) == Cardinality({i \in 1..Len(log) : log[i] \in S})

\* A name made from the compiled-in defaults.
DeviceName_Defaults(major, minor) ==
    "iBeacon-" \o ToString(DEFAULT_BEACON_MAJOR) \o "-"
    \o ToString(DEFAULT_BEACON_MINOR)

\* snprintf(device_name, sizeof(device_name), "iBeacon-%d-%d", major,
\* minor): both in decimal; the longest name, "iBeacon-65535-65535", fits
\* the 32 bytes of the buffer.
DeviceName(major, minor) ==
    "iBeacon-" \o ToString(major) \o "-" \o ToString(minor)

\* bluetooth_init: the device name is set from the identity, then the
\* handler is registered unless registration fails.
bluetooth_init(status) ==
    /\ main_pc = "bluetooth_init"
    /\ device_name' = DeviceName(g_beacon_major, g_beacon_minor)
    /\ gap_registered' = (status = ESP_OK)
    /\ main_pc' = AppMainNext("bluetooth_init")
    /\ boot_log' = Append(boot_log, "bluetooth_init")
    /\ UNCHANGED <<radio_log, config_loaded, saves_in_boot, boots>>

\* The radio commands start_ibeacon issues for a given result of
\* esp_ble_config_ibeacon_data.
StartIbeaconCommands(status) ==
    IF status = ESP_OK
    THEN <<CMD_CONFIG_ADV_DATA, CMD_TX_POWER_SET>>
    ELSE <<>>

start_ibeacon(status) ==
    /\ main_pc = "start_ibeacon"
    /\ radio_log' = radio_log \o StartIbeaconCommands(status)
    /\ main_pc' = AppMainNext("start_ibeacon")
    /\ boot_log' = Append(boot_log, "start_ibeacon")
    /\ UNCHANGED <<gap_registered, device_name, config_loaded, saves_in_boot,
                   boots>>

\* A handler that asks for advertising again when a start has failed.
GapHandlerCommands_RetryStart(event) ==
    IF event \in {EVT_RAW_SET_COMPLETE, EVT_START_COMPLETE_FAIL}
    THEN <<CMD_START_ADV>> ELSE <<>>

\* The radio commands gap_event_handler issues for one event.
GapHandlerCommands(event) ==
    IF event = EVT_RAW_SET_COMPLETE THEN <<CMD_START_ADV>> ELSE <<>>

\* The events the stack can raise, given what it was asked to do.
Raisable(log) ==
    {EVT_OTHER}
    \cup (IF Count(log, CMD_CONFIG_ADV_DATA) > 0
          THEN {EVT_RAW_SET_COMPLETE} ELSE {})
    \cup (IF Count(log, CMD_START_ADV) > 0
          THEN {EVT_START_COMPLETE_OK, EVT_START_COMPLETE_FAIL} ELSE {})

gap_event_handler(event) ==
    /\ gap_registered
    /\ event \in Raisable(radio_log)
    /\ CountIn(radio_log, GapEvents) < MaxGapEvents
    /\ radio_log' = Append(radio_log, event) \o GapHandlerCommands(event)
    /\ UNCHANGED <<gap_registered, device_name, bootVars>>

\* app_main is about to call bluetooth_init; the identity is whatever the
\* load left.
InitGap ==
    /\ g_beacon_major \in U16Samples
    /\ g_beacon_minor \in U16Samples
    /\ InitStoreFresh
    /\ main_pc = "bluetooth_init"
    /\ config_loaded = FALSE
    /\ saves_in_boot = 0
    /\ boots = 1
    /\ boot_log = <<>>
    /\ InitGapIdle
    /\ InitOtaIdle
    /\ InitWifiIdle
    /\ InitCodecIdle /\ InitUuidIdle

GapBluetoothInit ==
    \E status \in {ESP_OK, ESP_FAIL} :
        bluetooth_init(status)
        /\ UNCHANGED <<identVars, storeVars, otaVars, wifiVars, codecVars,
                       uuidVars>>

GapStartIbeacon ==
    \E status \in {ESP_OK, ESP_FAIL} :
        start_ibeacon(status)
        /\ UNCHANGED <<identVars, storeVars, otaVars, wifiVars, codecVars,
                       uuidVars>>

GapEvent ==
    \E event \in GapEvents :
        gap_event_handler(event)
        /\ UNCHANGED <<identVars, storeVars, otaVars, wifiVars, codecVars,
                       uuidVars>>

NextGap == GapBluetoothInit \/ GapStartIbeacon \/ GapEvent

SpecGap == InitGap /\ [][NextGap]_vars

----------------------------------------------------------------------------
(* The update task: ota_task and perform_ota_update.                       *)
(*                                                                         *)
(* ota_log holds what the current cycle did, in order: notifications,      *)
(* delays, indicator writes and the restart.                               *)

MaxCycles == 3

OTA_CHECK_INTERVAL_SEC == 300

\* vTaskDelay(10000 / portTICK_PERIOD_MS) before the loop.
OtaGraceDelayMs == 10000

\* A loop whose delay grows with the number of checks made.
OtaLoopDelayMs_Backoff == OTA_CHECK_INTERVAL_SEC * 1000 * ota_cycles

\* vTaskDelay((OTA_CHECK_INTERVAL_SEC * 1000) / portTICK_PERIOD_MS) in the
\* loop: the same delay after every check.
OtaLoopDelayMs == OTA_CHECK_INTERVAL_SEC * 1000

OtaStep(op, arg) == [op |-> op, arg |-> arg]

OtaResults == {ESP_OK, ESP_ERR_NOT_FOUND, ESP_FAIL, ESP_ERR_TIMEOUT}

\* How a notification's delivery ends: esp_http_client_init returns NULL,
\* esp_http_client_perform fails, or the server answers with a status.
WebhookOutcomes == {"client_init_failed", "perform_failed", "http_200",
                    "http_204", "http_500"}

\* esp_err_to_name for the codes the update request can return.
esp_err_to_name(code) ==
    CASE code = ESP_OK -> "ESP_OK"
      [] code = ESP_FAIL -> "ESP_FAIL"
      [] code = ESP_ERR_NOT_FOUND -> "ESP_ERR_NOT_FOUND"
      [] code = ESP_ERR_TIMEOUT -> "ESP_ERR_TIMEOUT"
      [] OTHER -> "UNKNOWN ERROR"

send_ota_success_webhook(status_message) ==
    <<OtaStep("send_ota_success_webhook", status_message)>>

send_ota_error_webhook(error_message) ==
    <<OtaStep("send_ota_error_webhook", error_message)>>

\* blink_led_ota_error: on, 500 ms, off.
blink_led_ota_error ==
    <<OtaStep("gpio_set_level", "1"), OtaStep("vTaskDelay", "500"),
      OtaStep("gpio_set_level", "0")>>

\* An update path that restarts before it notifies.
OtaUpdatedSteps_RestartFirst ==
    <<OtaStep("esp_restart", ""), OtaStep("vTaskDelay", "1000")>>
    \o send_ota_success_webhook("Firmware updated successfully - rebooting")

\* ret == ESP_OK: notify, wait a second, restart.
OtaUpdatedSteps ==
    send_ota_success_webhook("Firmware updated successfully - rebooting")
    \o <<OtaStep("vTaskDelay", "1000"), OtaStep("esp_restart", "")>>

\* ret == ESP_ERR_NOT_FOUND: notify that nothing was to be done.
OtaUpToDateSteps ==
    send_ota_success_webhook("No update needed - already on latest firmware")

\* A failure path that notifies without the error's name.
OtaFailedSteps_NoReason(ret) ==
    blink_led_ota_error \o send_ota_error_webhook("")

\* Any other ret: pulse the indicator, then notify with the error's name.
OtaFailedSteps(ret) ==
    blink_led_ota_error \o send_ota_error_webhook(esp_err_to_name(ret))

\* A perform_ota_update without the branch for ESP_ERR_NOT_FOUND.
PerformSteps_NotFoundIsError(ret) ==
    IF ret = ESP_OK THEN OtaUpdatedSteps ELSE OtaFailedSteps(ret)

\* What perform_ota_update does for a result of esp_https_ota.
PerformSteps(ret) ==
    IF ret = ESP_OK THEN OtaUpdatedSteps
    ELSE IF ret = ESP_ERR_NOT_FOUND THEN OtaUpToDateSteps
    ELSE OtaFailedSteps(ret)

\* A sender that aborts the firmware when the notification is not
\* delivered.
WebhookExit_AbortOnFailure(delivery) ==
    IF delivery \in {"http_200", "http_204"} THEN "end" ELSE "abort"

\* How send_ota_success_webhook and send_ota_error_webhook leave: by the
\* return after a failed esp_http_client_init, or by reaching their end
\* after esp_http_client_cleanup, whatever the transport and the server
\* answered.
WebhookExit(delivery) ==
    IF delivery = "client_init_failed" THEN "return" ELSE "end"

\* The steps of a path that perform_ota_update gets to run: all of them
\* when the notification's sender comes back to it.
OtaStepsRun(steps, exit) ==
    IF exit \in {"return", "end"}
    THEN steps
    ELSE LET i == CHOOSE k \in 1..Len(steps) :
                      steps[k].op \in {"send_ota_success_webhook",
                                       "send_ota_error_webhook"}
         IN  SubSeq(steps, 1, i) \o <<OtaStep("abort", "")>>

\* ota_task up to its loop: the grace delay before the first check.
ota_task_grace ==
    /\ ota_pc = "grace"
    /\ ota_graces' = ota_graces + 1
    /\ ota_pc' = "check"
    /\ ota_delay_ms' = OtaGraceDelayMs
    /\ UNCHANGED <<ota_ret, ota_log, ota_cycles, webhook_result>>

\* One call of perform_ota_update from the loop of ota_task.  esp_restart
\* does not return; every other path returns to the loop's delay.
perform_ota_update(ret, delivery) ==
    /\ ota_pc = "check"
    /\ ota_cycles < MaxCycles
    /\ ota_cycles' = ota_cycles + 1
    /\ ota_ret' = ret
    /\ LET run == OtaStepsRun(PerformSteps(ret), WebhookExit(delivery)) IN
        /\ ota_log' = run
        /\ ota_pc' = IF \E i \in 1..Len(run) : run[i].op = "esp_restart"
                     THEN "restarted"
                     ELSE IF \E i \in 1..Len(run) : run[i].op = "abort"
                     THEN "aborted"
                     ELSE "sleep"
    /\ webhook_result' = delivery
    /\ UNCHANGED <<ota_graces, ota_delay_ms>>

\* The loop's vTaskDelay of OTA_CHECK_INTERVAL_SEC, then the next check.
ota_task_sleep ==
    /\ ota_pc = "sleep"
    /\ ota_pc' = "check"
    /\ ota_delay_ms' = OtaLoopDelayMs
    /\ UNCHANGED <<ota_ret, ota_log, ota_cycles, ota_graces, webhook_result>>

\* After esp_restart the firmware boots again and app_main creates the
\* task anew.
ota_task_restarted ==
    /\ ota_pc = "restarted"
    /\ boots < MaxBoots
    /\ boots' = boots + 1
    /\ ota_pc' = "grace"
    /\ ota_ret' = ESP_OK
    /\ ota_log' = <<>>
    /\ ota_cycles' = 0
    /\ ota_graces' = 0
    /\ webhook_result' = "none"
    /\ ota_delay_ms' = 0
    /\ UNCHANGED <<main_pc, config_loaded, saves_in_boot, boot_log>>

\* app_main has created ota_task; the identity is whatever the load left.
InitOta ==
    /\ g_beacon_major \in U16Samples
    /\ g_beacon_minor \in U16Samples
    /\ InitStoreFresh
    /\ main_pc = "done"
    /\ config_loaded = FALSE
    /\ saves_in_boot = 0
    /\ boots = 1
    /\ boot_log = <<>>
    /\ InitGapIdle
    /\ ota_pc = "grace"
    /\ ota_ret = ESP_OK
    /\ ota_log = <<>>
    /\ ota_cycles = 0
    /\ ota_graces = 0
    /\ webhook_result = "none"
    /\ ota_delay_ms = 0
    /\ InitWifiIdle
    /\ InitCodecIdle /\ InitUuidIdle

OtaGrace ==
    /\ ota_task_grace
    /\ UNCHANGED <<identVars, storeVars, bootVars, gapVars, wifiVars,
                   codecVars, uuidVars>>

OtaCheck ==
    \E ret \in OtaResults, delivery \in WebhookOutcomes :
        /\ perform_ota_update(ret, delivery)
        /\ UNCHANGED <<identVars, storeVars, bootVars, gapVars, wifiVars,
                     codecVars, uuidVars>>

OtaSleep ==
    /\ ota_task_sleep
    /\ UNCHANGED <<identVars, storeVars, bootVars, gapVars, wifiVars,
                   codecVars, uuidVars>>

OtaRestarted ==
    ota_task_restarted
    /\ UNCHANGED <<identVars, storeVars, gapVars, wifiVars, codecVars,
                   uuidVars>>

NextOta == OtaGrace \/ OtaCheck \/ OtaSleep \/ OtaRestarted

SpecOta == InitOta /\ [][NextOta]_vars

\* The scheduler runs ota_task when it is ready: its delays expire, and
\* esp_https_ota and the notification's HTTP request come back within their
\* timeouts (30 s and 10 s).
SpecOtaFair ==
    /\ SpecOta
    /\ WF_vars(OtaGrace)
    /\ WF_vars(OtaCheck)
    /\ WF_vars(OtaSleep)

----------------------------------------------------------------------------
(* The network join: wifi_init_sta, wifi_event_handler and webhook_task.   *)
(*                                                                         *)
(* The WiFi driver raises WIFI_EVENT_STA_START once after esp_wifi_start,  *)
(* ends every connect attempt with IP_EVENT_STA_GOT_IP or                  *)
(* WIFI_EVENT_STA_DISCONNECTED, and raises WIFI_EVENT_STA_DISCONNECTED     *)
(* when an established link is lost.                                       *)

WIFI_MAXIMUM_RETRY == 5

MaxDrops == 1

WIFI_CONNECTED_BIT == "WIFI_CONNECTED_BIT"
WIFI_FAIL_BIT == "WIFI_FAIL_BIT"

WIFI_EVENT_STA_START == "WIFI_EVENT_STA_START"
WIFI_EVENT_STA_DISCONNECTED == "WIFI_EVENT_STA_DISCONNECTED"
IP_EVENT_STA_GOT_IP == "IP_EVENT_STA_GOT_IP"
WifiEvents == {WIFI_EVENT_STA_START, WIFI_EVENT_STA_DISCONNECTED,
               IP_EVENT_STA_GOT_IP}

\* A handler that allows one reconnect more.
WifiShouldRetry_OneMore(retry) == retry <= WIFI_MAXIMUM_RETRY

\* s_retry_num < WIFI_MAXIMUM_RETRY
WifiShouldRetry(retry) == retry < WIFI_MAXIMUM_RETRY

\* A handler that leaves s_retry_num as it is when an address arrives.
WifiHandlerResult_NoReset(event, retry, bits) ==
    CASE event = WIFI_EVENT_STA_START ->
            [retry |-> retry, bits |-> bits, connect |-> TRUE]
      [] event = WIFI_EVENT_STA_DISCONNECTED ->
            IF WifiShouldRetry(retry)
            THEN [retry |-> retry + 1, bits |-> bits, connect |-> TRUE]
            ELSE [retry |-> retry, bits |-> bits \cup {WIFI_FAIL_BIT},
                  connect |-> FALSE]
      [] event = IP_EVENT_STA_GOT_IP ->
            [retry |-> retry, bits |-> bits \cup {WIFI_CONNECTED_BIT},
             connect |-> FALSE]

\* wifi_event_handler as a function of the event, s_retry_num and the
\* event bits: the new s_retry_num, the new bits, and whether
\* esp_wifi_connect is called.
WifiHandlerResult(event, retry, bits) ==
    CASE event = WIFI_EVENT_STA_START ->
            [retry |-> retry, bits |-> bits, connect |-> TRUE]
      [] event = WIFI_EVENT_STA_DISCONNECTED ->
            IF WifiShouldRetry(retry)
            THEN [retry |-> retry + 1, bits |-> bits, connect |-> TRUE]
            ELSE [retry |-> retry, bits |-> bits \cup {WIFI_FAIL_BIT},
                  connect |-> FALSE]
      [] event = IP_EVENT_STA_GOT_IP ->
            [retry |-> 0, bits |-> bits \cup {WIFI_CONNECTED_BIT},
             connect |-> FALSE]

\* The events the driver can raise in the current state.
WifiRaisable ==
    (IF wifi_sta_start THEN {WIFI_EVENT_STA_START} ELSE {})
    \cup (IF wifi_attempt
          THEN {WIFI_EVENT_STA_DISCONNECTED, IP_EVENT_STA_GOT_IP} ELSE {})
    \cup (IF wifi_link /\ wifi_drops < MaxDrops
          THEN {WIFI_EVENT_STA_DISCONNECTED} ELSE {})

\* wifi_init_sta up to esp_wifi_start: the event group is created, the
\* handler registered, the driver started; any failure aborts.
wifi_init_sta_start(status) ==
    /\ main_pc = "wifi_init"
    /\ boot_log' = Append(boot_log, "wifi_init_sta")
    /\ IF status = ESP_OK
       THEN /\ main_pc' = AppMainNext("wifi_init")
            /\ wifi_sta_start' = TRUE
       ELSE /\ main_pc' = "aborted"
            /\ UNCHANGED wifi_sta_start
    /\ UNCHANGED <<s_retry_num, wifi_bits, wifi_attempt, wifi_link,
                   wifi_connects, wifi_drops, wifi_result, webhook_task,
                   webhook_ident, config_loaded, saves_in_boot, boots>>

\* One call of wifi_event_handler by the event loop.
wifi_event_handler(event) ==
    /\ main_pc # "aborted"
    /\ event \in WifiRaisable
    /\ LET r == WifiHandlerResult(event, s_retry_num, wifi_bits) IN
        /\ s_retry_num' = r.retry
        /\ wifi_bits' = r.bits
        /\ wifi_attempt' = r.connect
        /\ wifi_connects' = wifi_connects + (IF r.connect THEN 1 ELSE 0)
    /\ wifi_sta_start' = (wifi_sta_start /\ event # WIFI_EVENT_STA_START)
    /\ wifi_link' = (event = IP_EVENT_STA_GOT_IP)
    /\ wifi_drops' = wifi_drops + (IF event = WIFI_EVENT_STA_DISCONNECTED
                                      /\ wifi_link THEN 1 ELSE 0)
    /\ UNCHANGED <<wifi_result, webhook_task, webhook_ident>>

\* The branch wifi_init_sta takes on the bits its wait returned.
WifiWaitResult(bits) ==
    IF WIFI_CONNECTED_BIT \in bits THEN "Connected"
    ELSE IF WIFI_FAIL_BIT \in bits THEN "Failed"
    ELSE "Unexpected"

\* xEventGroupWaitBits with portMAX_DELAY returns once a bit is set; when
\* connected, wifi_init_sta blinks the indicator and creates webhook_task.
wifi_init_sta_wait ==
    /\ main_pc = "wifi_wait"
    /\ wifi_bits # {}
    /\ wifi_result' = WifiWaitResult(wifi_bits)
    /\ webhook_task' = IF WifiWaitResult(wifi_bits) = "Connected"
                       THEN "created" ELSE webhook_task
    /\ boot_log' = boot_log \o
           (IF WifiWaitResult(wifi_bits) = "Connected"
            THEN <<"xEventGroupWaitBits", "xTaskCreate:webhook_task">>
            ELSE <<"xEventGroupWaitBits">>)
    /\ main_pc' = AppMainNext("wifi_wait")
    /\ UNCHANGED <<s_retry_num, wifi_bits, wifi_sta_start, wifi_attempt,
                   wifi_link, wifi_connects, wifi_drops, webhook_ident,
                   config_loaded, saves_in_boot, boots>>

\* webhook_task: with WEBHOOK_INTERVAL_SEC 0 it builds one payload from
\* g_beacon_major and g_beacon_minor, posts it and deletes itself.  No task
\* runs once the firmware has aborted.
webhook_task_run ==
    /\ main_pc # "aborted"
    /\ webhook_task = "created"
    /\ webhook_ident' = <<g_beacon_major, g_beacon_minor>>
    /\ webhook_task' = "deleted"
    /\ UNCHANGED <<s_retry_num, wifi_bits, wifi_sta_start, wifi_attempt,
                   wifi_link, wifi_connects, wifi_drops, wifi_result>>

\* app_main is about to call wifi_init_sta; the identity is whatever the
\* load left.
InitWifi ==
    /\ g_beacon_major \in U16Samples
    /\ g_beacon_minor \in U16Samples
    /\ InitStoreFresh
    /\ main_pc = "wifi_init"
    /\ config_loaded = FALSE
    /\ saves_in_boot = 0
    /\ boots = 1
    /\ boot_log = <<>>
    /\ InitGapIdle
    /\ InitOtaIdle
    /\ InitWifiIdle
    /\ InitCodecIdle /\ InitUuidIdle

WifiInitSta ==
    \E status \in {ESP_OK, ESP_FAIL} :
        /\ wifi_init_sta_start(status)
        /\ UNCHANGED <<identVars, storeVars, gapVars, otaVars, codecVars,
                       uuidVars>>

WifiEvent ==
    \E event \in WifiEvents :
        /\ wifi_event_handler(event)
        /\ UNCHANGED <<identVars, storeVars, bootVars, gapVars, otaVars,
                       codecVars, uuidVars>>

\* The events the driver owes: the start event and the end of a connect
\* attempt.
WifiOwedEvent ==
    \E event \in WifiEvents :
        /\ wifi_sta_start \/ wifi_attempt
        /\ wifi_event_handler(event)
        /\ UNCHANGED <<identVars, storeVars, bootVars, gapVars, otaVars,
                       codecVars, uuidVars>>

WifiWait ==
    /\ wifi_init_sta_wait
    /\ UNCHANGED <<identVars, storeVars, gapVars, otaVars, codecVars,
                   uuidVars>>

WifiWebhookTask ==
    /\ webhook_task_run
    /\ UNCHANGED <<identVars, storeVars, bootVars, gapVars, otaVars,
                   codecVars, uuidVars>>

NextWifi == WifiInitSta \/ WifiEvent \/ WifiWait \/ WifiWebhookTask

SpecWifi == InitWifi /\ [][NextWifi]_vars

\* The driver raises the events it owes, and the scheduler runs app_main
\* when the bits it waits for are set.
SpecWifiFair ==
    /\ SpecWifi
    /\ WF_vars(WifiOwedEvent)
    /\ WF_vars(WifiWait)

----------------------------------------------------------------------------
(* app_main from its first statement to its last.                          *)

\* esp_bt_controller_mem_release, esp_bt_controller_init and
\* esp_bt_controller_enable, each under ESP_ERROR_CHECK.
app_main_bt_controller(status) ==
    /\ main_pc = "bt_controller"
    /\ boot_log' = Append(boot_log, "esp_bt_controller_init")
    /\ main_pc' = IF status = ESP_OK
                  THEN AppMainNext("bt_controller") ELSE "aborted"
    /\ UNCHANGED <<config_loaded, saves_in_boot, boots>>

\* xTaskCreate(&ota_task, ...): the last statement of app_main that acts.
app_main_create_ota_task ==
    /\ main_pc = "create_ota_task"
    /\ boot_log' = Append(boot_log, "xTaskCreate:ota_task")
    /\ main_pc' = AppMainNext("create_ota_task")
    /\ ota_pc' = "grace"
    /\ UNCHANGED <<config_loaded, saves_in_boot, boots, ota_ret, ota_log,
                   ota_cycles, ota_graces, webhook_result, ota_delay_ms>>

InitMain == InitBoot

MainBtController ==
    \E status \in {ESP_OK, ESP_FAIL} :
        /\ app_main_bt_controller(status)
        /\ UNCHANGED <<identVars, storeVars, gapVars, otaVars, wifiVars,
                       codecVars, uuidVars>>

MainCreateOtaTask ==
    /\ app_main_create_ota_task
    /\ UNCHANGED <<identVars, storeVars, gapVars, wifiVars, codecVars,
                   uuidVars>>

NextMain ==
    \/ BootNvsInit
    \/ BootLoadConfig
    \/ WifiInitSta
    \/ WifiEvent
    \/ WifiWait
    \/ WifiWebhookTask
    \/ MainBtController
    \/ GapBluetoothInit
    \/ GapStartIbeacon
    \/ MainCreateOtaTask

SpecMain == InitMain /\ [][NextMain]_vars

----------------------------------------------------------------------------
(* The iBeacon packet codec of esp_ibeacon_api.h.                          *)
(*                                                                         *)
(* A packet is a sequence of bytes, laid out as the packed structs of the  *)
(* header: esp_ble_ibeacon_head_t (9 bytes) and esp_ble_ibeacon_vendor_t   *)
(* (16 + 2 + 2 + 1 bytes).  The functions' bodies are not part of the      *)
(* sources; they follow the design document's Encode, Recognize and        *)
(* Decode.                                                                 *)

\* sizeof(esp_ble_ibeacon_t)
IBEACON_PACKET_LEN == 30

\* A swap that moves the low byte up by four bits only.
ENDIAN_CHANGE_U16_ShortShift(x) == ((x \div 256) % 256) + ((x % 256) * 16)

\* A swap that keeps only the low four bits of the low byte.
ENDIAN_CHANGE_U16_LowNibble(x) == ((x \div 256) % 256) + ((x % 16) * 256)

\* ((((x)&0xFF00)>>8) + (((x)&0xFF)<<8))
ENDIAN_CHANGE_U16(x) == ((x \div 256) % 256) + ((x % 256) * 256)

\* A uint16_t field of a packed struct in the memory of the little-endian
\* host, and back.
U16Bytes(v) == <<v % 256, (v \div 256) % 256>>
U16FromBytes(lo, hi) == lo + hi * 256

\* An int8_t field as a byte, and back.
Int8Byte(p) == IF p < 0 THEN p + 256 ELSE p
ByteInt8(b) == IF b > 127 THEN b - 256 ELSE b

\* ibeacon_common_head: flags 02 01 06, length 0x1A, type 0xFF, company
\* 0x004C, beacon type 0x1502.
ibeacon_common_head == <<2, 1, 6, 26, 255, 76, 0, 2, 21>>

\* esp_ble_set_ibeacon_params: vendor_config holds major and minor with
\* their bytes swapped.
esp_ble_set_ibeacon_params(id) ==
    [proximity_uuid |-> id.uuid,
     major          |-> ENDIAN_CHANGE_U16(id.major),
     minor          |-> ENDIAN_CHANGE_U16(id.minor),
     measured_power |-> id.power]

\* esp_ble_config_ibeacon_data: the constant head, then the vendor part as
\* it lies in memory.
esp_ble_config_ibeacon_data(vendor_config) ==
    ibeacon_common_head \o vendor_config.proximity_uuid
    \o U16Bytes(vendor_config.major) \o U16Bytes(vendor_config.minor)
    \o <<Int8Byte(vendor_config.measured_power)>>

\* esp_ble_is_ibeacon_packet: the length first, then the head.
esp_ble_is_ibeacon_packet(adv_data, adv_data_len) ==
    /\ adv_data_len = IBEACON_PACKET_LEN
    /\ SubSeq(adv_data, 1, Len(ibeacon_common_head)) = ibeacon_common_head

\* The identity in a packet that esp_ble_is_ibeacon_packet accepted.
IbeaconDecode(adv_data) ==
    [uuid  |-> SubSeq(adv_data, 10, 25),
     major |-> ENDIAN_CHANGE_U16(U16FromBytes(adv_data[26], adv_data[27])),
     minor |-> ENDIAN_CHANGE_U16(U16FromBytes(adv_data[28], adv_data[29])),
     power |-> ByteInt8(adv_data[30])]

\* The identities the codec is run on: the configured UUID and the two
\* extreme ones; major and minor with equal, different, zero and full
\* bytes; the power byte at its limits, at zero and at -59.
CodecUuids ==
    {<<237, 23, 168, 3, 209, 172, 79, 4, 162, 240, 120, 2, 180, 201, 199, 12>>,
     [i \in 1..16 |-> 0], [i \in 1..16 |-> 255]}
CodecU16s == {0, DEFAULT_BEACON_MINOR, 256, 4660, 65535}
CodecPowers == {-128, -59, 0, 127}
CodecIdentities ==
    [uuid : CodecUuids, major : CodecU16s, minor : CodecU16s,
     power : CodecPowers]

\* The lengths a received payload is cut to.
CodecShortLens == {0, 8, 29}

InitCodec ==
    /\ InitIdent
    /\ InitStoreFresh
    /\ InitBootIdle
    /\ InitGapIdle
    /\ InitOtaIdle
    /\ InitWifiIdle
    /\ InitUuidIdle
    /\ codec_pc = "encode"
    /\ codec_in \in CodecIdentities
    /\ codec_packet = <<>>
    /\ codec_ok = FALSE
    /\ codec_out = <<>>

CodecEncode ==
    /\ codec_pc = "encode"
    /\ codec_packet' =
           esp_ble_config_ibeacon_data(esp_ble_set_ibeacon_params(codec_in))
    /\ codec_pc' = "recognize"
    /\ UNCHANGED <<codec_in, codec_ok, codec_out, identVars, storeVars,
                   bootVars, gapVars, otaVars, wifiVars, uuidVars>>

\* The payload arrives cut short.
CodecTruncate ==
    \E n \in CodecShortLens :
        /\ codec_pc = "recognize"
        /\ Len(codec_packet) = IBEACON_PACKET_LEN
        /\ codec_packet' = SubSeq(codec_packet, 1, n)
        /\ UNCHANGED <<codec_pc, codec_in, codec_ok, codec_out, identVars,
                       storeVars, bootVars, gapVars, otaVars, wifiVars,
                       uuidVars>>

CodecRecognize ==
    /\ codec_pc = "recognize"
    /\ codec_ok' = esp_ble_is_ibeacon_packet(codec_packet, Len(codec_packet))
    /\ codec_pc' = IF esp_ble_is_ibeacon_packet(codec_packet,
                                                Len(codec_packet))
                   THEN "decode" ELSE "rejected"
    /\ UNCHANGED <<codec_in, codec_packet, codec_out, identVars, storeVars,
                   bootVars, gapVars, otaVars, wifiVars, uuidVars>>

CodecDecode ==
    /\ codec_pc = "decode"
    /\ codec_out' = IbeaconDecode(codec_packet)
    /\ codec_pc' = "done"
    /\ UNCHANGED <<codec_in, codec_packet, codec_ok, identVars, storeVars,
                   bootVars, gapVars, otaVars, wifiVars, uuidVars>>

NextCodec == CodecEncode \/ CodecTruncate \/ CodecRecognize \/ CodecDecode

SpecCodec == InitCodec /\ [][NextCodec]_vars

----------------------------------------------------------------------------
(* parse_uuid_string.  A C string is the sequence of its characters before *)
(* the terminator; index i of the C code is position i + 1 here.  What     *)
(* memory holds after the terminator is not the string's: any content is   *)
(* possible there.                                                         *)

MaxUuidLen == 3
UuidTailLen == 2

NUL == "NUL"

BEACON_UUID_STRING ==
    <<"E", "D", "1", "7", "A", "8", "0", "3", "-", "D", "1", "A", "C", "-",
      "4", "F", "0", "4", "-", "A", "2", "F", "0", "-", "7", "8", "0", "2",
      "B", "4", "C", "9", "C", "7", "0", "C">>

UpperHex == <<"0", "1", "2", "3", "4", "5", "6", "7", "8", "9", "A", "B",
              "C", "D", "E", "F">>
LowerHex == <<"0", "1", "2", "3", "4", "5", "6", "7", "8", "9", "a", "b",
              "c", "d", "e", "f">>

IsHex(c) == \E d \in 1..16 : UpperHex[d] = c \/ LowerHex[d] = c

HexVal(c) == (CHOOSE d \in 1..16 : UpperHex[d] = c \/ LowerHex[d] = c) - 1

\* (uint8_t)strtol(hex_pair, NULL, 16) for hex_pair = {c1, c2, '\0'}:
\* white space is skipped, then an optional sign, then hex digits up to
\* the first character that is none; no digit at all gives 0.
StrtolPair(c1, c2) ==
    LET value ==
            IF IsHex(c1)
            THEN IF IsHex(c2) THEN 16 * HexVal(c1) + HexVal(c2)
                 ELSE HexVal(c1)
            ELSE IF c1 \in {" ", "+"} /\ IsHex(c2) THEN HexVal(c2)
            ELSE IF c1 = "-" /\ IsHex(c2) THEN 0 - HexVal(c2)
            ELSE 0
    IN  value % 256

\* The memory parse_uuid_string walks: the string, its terminator, then
\* whatever follows.
UuidMemory(str, tail) == str \o <<NUL>> \o tail

\* uuid_str[i]; memory past the modelled tail reads as a terminator.
UuidCharAt(mem, i) == IF i + 1 <= Len(mem) THEN mem[i + 1] ELSE NUL

\* A parser that takes the hyphens for digits.
UuidSkipped_Nothing(c) == FALSE

\* if (uuid_str[i] == '-') continue;
UuidSkipped(c) == c = "-"

\* The for loop of parse_uuid_string from index i on.  st holds the
\* buffer and the indices read and written so far.
RECURSIVE ParseUuidLoop(_, _, _, _)
ParseUuidLoop(mem, i, byte_index, st) ==
    LET c  == UuidCharAt(mem, i)
        r1 == [st EXCEPT !.reads = @ \cup {i}]
    IN  IF c = NUL \/ ~(byte_index < 16) THEN r1
        ELSE IF UuidSkipped(c) THEN ParseUuidLoop(mem, i + 1, byte_index, r1)
        ELSE ParseUuidLoop(mem, i + 2, byte_index + 1,
                 [bytes  |-> [k \in DOMAIN st.bytes \cup {byte_index} |->
                                IF k = byte_index
                                THEN StrtolPair(c, UuidCharAt(mem, i + 1))
                                ELSE st.bytes[k]],
                  reads  |-> st.reads \cup {i, i + 1},
                  writes |-> Append(st.writes, byte_index)])

\* parse_uuid_string(uuid_str, uuid_bytes) on a buffer holding `bytes`.
ParseUuid(str, tail, bytes) ==
    ParseUuidLoop(UuidMemory(str, tail), 0, 0,
                  [bytes |-> bytes, reads |-> {}, writes |-> <<>>])

parse_uuid_string ==
    /\ uuid_pc = "idle"
    /\ uuid_bytes' = ParseUuid(uuid_str, uuid_tail, uuid_bytes).bytes
    /\ uuid_reads' = ParseUuid(uuid_str, uuid_tail, uuid_bytes).reads
    /\ uuid_writes' = ParseUuid(uuid_str, uuid_tail, uuid_bytes).writes
    /\ uuid_pc' = "parsed"
    /\ UNCHANGED <<uuid_str, uuid_tail, identVars, storeVars, bootVars,
                   gapVars, otaVars, wifiVars, codecVars>>

\* The 8-4-4-4-12 form of 16 bytes, with the digits of `hex`.
UuidFormat(bytes, hex) ==
    LET pair(k) == <<hex[(bytes[k] \div 16) + 1], hex[(bytes[k] % 16) + 1]>>
        group(a, b) ==
            [n \in 1..(2 * (b - a + 1)) |-> pair(a + ((n - 1) \div 2))[
                                                ((n - 1) % 2) + 1]]
    IN  group(1, 4) \o <<"-">> \o group(5, 6) \o <<"-">> \o group(7, 8)
        \o <<"-">> \o group(9, 10) \o <<"-">> \o group(11, 16)

UuidDigits(str) == SelectSeq(str, IsHex)

UuidCanonicalInputs ==
    {BEACON_UUID_STRING}
    \cup {UuidFormat(u, UpperHex) : u \in CodecUuids}
    \cup {UuidFormat(u, LowerHex) : u \in CodecUuids}

UuidShortChars == {"A", "7", "-", "g"}

UuidShortInputs ==
    UNION {[1..n -> UuidShortChars] : n \in 0..MaxUuidLen}

\* Long inputs that are not canonical: a digit short, a trailing hyphen,
\* no hyphens at all with 32 and with 36 digits, half a UUID, a hyphen
\* doubled, and a sign and a blank where a digit should be.
UuidOddInputs ==
    {SubSeq(BEACON_UUID_STRING, 1, 35),
     BEACON_UUID_STRING \o <<"-">>,
     UuidDigits(BEACON_UUID_STRING),
     UuidDigits(BEACON_UUID_STRING) \o <<"A", "B", "C", "D">>,
     SubSeq(BEACON_UUID_STRING, 1, 18),
     SubSeq(BEACON_UUID_STRING, 1, 9) \o SubSeq(BEACON_UUID_STRING, 9, 36),
     <<"+", "A", " ", "7", "A", "-">>}

UuidInputs == UuidCanonicalInputs \cup UuidShortInputs \cup UuidOddInputs

UuidTailChars == {NUL, "F", "-"}
UuidTails == [1..UuidTailLen -> UuidTailChars]

\* start_ibeacon's beacon_uuid[16] is an uninitialised local: it holds
\* anything before the parse.
UuidGarbage == {0, 170}

InitUuid ==
    /\ InitIdent
    /\ InitStoreFresh
    /\ InitBootIdle
    /\ InitGapIdle
    /\ InitOtaIdle
    /\ InitWifiIdle
    /\ InitCodecIdle
    /\ uuid_pc = "idle"
    /\ uuid_str \in UuidInputs
    /\ uuid_tail \in UuidTails
    /\ uuid_bytes \in {[k \in 0..15 |-> g] : g \in UuidGarbage}
    /\ uuid_reads = {}
    /\ uuid_writes = <<>>

NextUuid == parse_uuid_string

SpecUuid == InitUuid /\ [][NextUuid]_vars

----------------------------------------------------------------------------
(* Claims about the identity store, checked under SpecStore.               *)

Identity == <<g_beacon_major, g_beacon_minor>>

\* C3: save_beacon_config_to_nvs changes g_beacon_major and g_beacon_minor
\* only when its trace holds an nvs_commit that returned ESP_OK; when any of
\* nvs_open, nvs_set_u16 or nvs_commit fails, both fields keep their
\* previous values and the function returns that call's error code; when
\* it returns ESP_OK the identity is the pair it was called with.
C3_IdentityOnlyAfterCommit ==
    [][last_op' = "save" =>
        /\ (Identity' # Identity =>
              \E i \in 1..Len(nvs_trace') :
                  nvs_trace'[i] = NvsCall("nvs_commit", ESP_OK))
        /\ \A i \in 1..Len(nvs_trace') :
              nvs_trace'[i].ret # ESP_OK =>
                  /\ Identity' = Identity
                  /\ save_ret' = nvs_trace'[i].ret
        /\ (save_ret' = ESP_OK => Identity' = committed')]_vars

\* A save whose commit failed with ESP_ERR_NVS_NOT_ENOUGH_SPACE after the
\* new major had reached flash: the identity still holds the defaults.
C3_Witness ==
    /\ last_op = "save"
    /\ save_ret = ESP_ERR_NVS_NOT_ENOUGH_SPACE
    /\ Len(nvs_trace) = 5
    /\ nvs_trace[4] = NvsCall("nvs_commit", ESP_ERR_NVS_NOT_ENOUGH_SPACE)
    /\ NVS_KEY_MAJOR \in DOMAIN nvs_kv
    /\ nvs_kv[NVS_KEY_MAJOR] = 77
    /\ Identity = <<DEFAULT_BEACON_MAJOR, DEFAULT_BEACON_MINOR>>

\* C4: after any save attempt flash holds either both new values or
\* exactly what it held before the call.
C4_SaveAllOrNothing ==
    [][\A major \in U16Samples, minor \in U16Samples, env \in SaveEnvs :
          save_beacon_config_to_nvs(major, minor, env) =>
              \/ nvs_kv' = nvs_kv
              \/ nvs_kv' = [k \in NvsKeys |->
                               IF k = NVS_KEY_MAJOR THEN major ELSE minor]]_vars

\* C5: when the last store operation is a load and a save that returned
\* ESP_OK for (m, n) has not been disturbed since, the load returned true
\* and the identity is (m, n).
C5_SaveLoadRoundTrip ==
    (last_op = "load" /\ committed # <<>>) =>
        (load_ret /\ Identity = committed)

\* A load that follows a successful save of (77, 100).
C5_Witness ==
    /\ last_op = "load"
    /\ committed = <<77, DEFAULT_BEACON_MAJOR>>
    /\ load_ret
    /\ Identity = <<77, DEFAULT_BEACON_MAJOR>>

\* C6: after a load that found the namespace with exactly one of the two
\* keys, the load returned true, the present key's stored value is in the
\* identity and the missing key's field holds its compiled-in default.
C6_LoadDefaultsPerKey ==
    (last_op = "load" /\ nvs_ns /\ Cardinality(DOMAIN nvs_kv) = 1) =>
        /\ load_ret
        /\ (NVS_KEY_MAJOR \in DOMAIN nvs_kv =>
               Identity = <<nvs_kv[NVS_KEY_MAJOR], DEFAULT_BEACON_MINOR>>)
        /\ (NVS_KEY_MINOR \in DOMAIN nvs_kv =>
               Identity = <<DEFAULT_BEACON_MAJOR, nvs_kv[NVS_KEY_MINOR]>>)

\* A load of a namespace that holds major = 77 and no minor.
C6_Witness ==
    /\ last_op = "load"
    /\ nvs_ns
    /\ DOMAIN nvs_kv = {NVS_KEY_MAJOR}
    /\ nvs_kv[NVS_KEY_MAJOR] = 77
    /\ Identity = <<77, DEFAULT_BEACON_MINOR>>

\* C19: in the NVS calls of every Load and every Save, the first call is
\* the only nvs_open; when it failed no further call is made; when it
\* succeeded exactly one nvs_close is made and it is the last call, so that
\* every other call lies between the open and the close and no handle is
\* open when the function has returned.
C19_HandleDiscipline ==
    nvs_trace # <<>> =>
        /\ \A i \in 1..Len(nvs_trace) :
              nvs_trace[i].call = "nvs_open" <=> i = 1
        /\ (nvs_trace[1].ret # ESP_OK => Len(nvs_trace) = 1)
        /\ (nvs_trace[1].ret = ESP_OK =>
              /\ nvs_trace[Len(nvs_trace)].call = "nvs_close"
              /\ Cardinality({i \in 1..Len(nvs_trace) :
                                 nvs_trace[i].call = "nvs_close"}) = 1)

\* A save whose nvs_set_u16 of the minor failed: its fourth and last call
\* is the close.
C19_Witness ==
    /\ last_op = "save"
    /\ save_ret = ESP_FAIL
    /\ nvs_trace = <<NvsCall("nvs_open", ESP_OK),
                     NvsCall("nvs_set_u16:major", ESP_OK),
                     NvsCall("nvs_set_u16:minor", ESP_FAIL),
                     NvsCall("nvs_close", ESP_OK)>>

----------------------------------------------------------------------------
(* Claims about the first boot, checked under SpecBoot.                    *)

\* C7: once app_main is past the load of the identity in a boot where the
\* load reported the namespace as not found, app_main has called
\* save_beacon_config_to_nvs in that boot.
C7_FirstBootSavesDefaults ==
    (main_pc = "wifi_init" /\ ~config_loaded) => saves_in_boot >= 1

----------------------------------------------------------------------------
(* Claims about advertising, checked under SpecGap.                        *)

\* C1: start_advertising is issued at most once per configure_payload,
\* whatever events the radio stack raises.
C1_StartAtMostOncePerConfig ==
    Count(radio_log, CMD_START_ADV) <= Count(radio_log, CMD_CONFIG_ADV_DATA)

\* C2: once an ADV_START_COMPLETE event with a failure status was
\* received, no radio command is issued any more.
C2_NoCommandAfterFailure ==
    \A i \in 1..Len(radio_log) :
        radio_log[i] = EVT_START_COMPLETE_FAIL =>
            \A j \in (i+1)..Len(radio_log) : radio_log[j] \notin RadioCommands

\* C18: every esp_ble_gap_start_advertising call comes directly after an
\* ADV_DATA_RAW_SET_COMPLETE event and after an earlier
\* esp_ble_gap_config_adv_data_raw call, and no radio command comes directly
\* after an ADV_START_COMPLETE event.
C18_StartOnlyOnPayloadSet ==
    /\ \A i \in 1..Len(radio_log) :
          radio_log[i] = CMD_START_ADV =>
              /\ i > 1
              /\ radio_log[i-1] = EVT_RAW_SET_COMPLETE
              /\ \E j \in 1..(i-1) : radio_log[j] = CMD_CONFIG_ADV_DATA
    /\ \A i \in 1..Len(radio_log) :
          radio_log[i] \in {EVT_START_COMPLETE_OK, EVT_START_COMPLETE_FAIL} =>
              (i = Len(radio_log) \/ radio_log[i+1] \notin RadioCommands)

\* The payload was configured, its completion started advertising, and the
\* failed start that followed caused no command before the next event.
C18_Witness ==
    radio_log = <<CMD_CONFIG_ADV_DATA, CMD_TX_POWER_SET, EVT_RAW_SET_COMPLETE,
                  CMD_START_ADV, EVT_START_COMPLETE_FAIL, EVT_OTHER>>

----------------------------------------------------------------------------
(* Claims about the update cycle, checked under SpecOta.  A notification   *)
(* counts as sent when its send function is called; whether it is          *)
(* delivered is webhook_result.                                            *)

OpCount(log, op) == Cardinality({i \in 1..Len(log) : log[i].op = op})
StepCount(log, step) == Cardinality({i \in 1..Len(log) : log[i] = step})

\* C8: in a cycle whose update request returned ESP_OK, exactly one success
\* notification is sent, then comes the delay of 1000 ms, then the one
\* restart; no failure notification is sent and the indicator is not
\* written.
C8_UpdatedNotifiesThenRestarts ==
    (ota_cycles > 0 /\ ota_ret = ESP_OK) =>
        /\ OpCount(ota_log, "send_ota_success_webhook") = 1
        /\ OpCount(ota_log, "send_ota_error_webhook") = 0
        /\ OpCount(ota_log, "gpio_set_level") = 0
        /\ OpCount(ota_log, "esp_restart") = 1
        /\ \E i, j, k \in 1..Len(ota_log) :
              /\ i < j /\ j < k
              /\ ota_log[i].op = "send_ota_success_webhook"
              /\ ota_log[j] = OtaStep("vTaskDelay", "1000")
              /\ ota_log[k].op = "esp_restart"
        /\ ota_pc = "restarted"

\* An applied update with the device restarting, the notification lost.
C8_Witness ==
    /\ ota_pc = "restarted"
    /\ ota_ret = ESP_OK
    /\ ota_cycles = 2
    /\ webhook_result = "perform_failed"
    /\ Len(ota_log) = 3
    /\ ota_log[1].op = "send_ota_success_webhook"
    /\ ota_log[3].op = "esp_restart"

\* C9: in a cycle whose update request returned anything but ESP_OK and
\* ESP_ERR_NOT_FOUND, the indicator is switched on once and off once after
\* it, exactly one failure notification is sent and its reason is not
\* empty, no success notification is sent, esp_restart is not called, and
\* the task is at its inter-check delay or past it.
C9_FailedPulsesAndNotifies ==
    (ota_cycles > 0 /\ ota_ret \notin {ESP_OK, ESP_ERR_NOT_FOUND}) =>
        /\ StepCount(ota_log, OtaStep("gpio_set_level", "1")) = 1
        /\ StepCount(ota_log, OtaStep("gpio_set_level", "0")) = 1
        /\ \E i, j \in 1..Len(ota_log) :
              /\ i < j
              /\ ota_log[i] = OtaStep("gpio_set_level", "1")
              /\ ota_log[j] = OtaStep("gpio_set_level", "0")
        /\ OpCount(ota_log, "send_ota_error_webhook") = 1
        /\ \A i \in 1..Len(ota_log) :
              ota_log[i].op = "send_ota_error_webhook" => ota_log[i].arg # ""
        /\ OpCount(ota_log, "send_ota_success_webhook") = 0
        /\ OpCount(ota_log, "esp_restart") = 0
        /\ ota_pc \in {"sleep", "check"}

\* A request that timed out: the task sleeps, the notification names the
\* error.
C9_Witness ==
    /\ ota_pc = "sleep"
    /\ ota_ret = ESP_ERR_TIMEOUT
    /\ \E i \in 1..Len(ota_log) :
          ota_log[i] = OtaStep("send_ota_error_webhook", "ESP_ERR_TIMEOUT")

\* C10: in a cycle whose update request returned ESP_ERR_NOT_FOUND, exactly
\* one success notification is sent, no failure notification is sent, the
\* indicator is not written and esp_restart is not called; and in every
\* cycle esp_restart is called only when the request returned ESP_OK.
C10_UpToDateNoRestart ==
    /\ (ota_cycles > 0 /\ ota_ret = ESP_ERR_NOT_FOUND) =>
          /\ OpCount(ota_log, "send_ota_success_webhook") = 1
          /\ OpCount(ota_log, "send_ota_error_webhook") = 0
          /\ OpCount(ota_log, "gpio_set_level") = 0
          /\ OpCount(ota_log, "esp_restart") = 0
          /\ ota_pc \in {"sleep", "check"}
    /\ (OpCount(ota_log, "esp_restart") > 0 \/ ota_pc = "restarted") =>
          ota_ret = ESP_OK

\* A check that found no newer version, after an earlier failed check.
C10_Witness ==
    /\ ota_pc = "sleep"
    /\ ota_ret = ESP_ERR_NOT_FOUND
    /\ ota_cycles = 2
    /\ ota_log = <<OtaStep("send_ota_success_webhook",
                           "No update needed - already on latest firmware")>>

\* C13: the grace delay is taken exactly once per boot and before the
\* first check; the delay before every later check is
\* OTA_CHECK_INTERVAL_SEC seconds, however many checks were made; and after
\* every check that did not apply an update, the next check is eventually
\* performed (up to the number of checks the model follows).
C13_LoopNeverGivesUp ==
    /\ [](ota_graces <= 1 /\ (ota_cycles > 0 => ota_graces = 1))
    /\ []((ota_pc = "check" /\ ota_cycles = 0 /\ ota_graces = 1) =>
              ota_delay_ms = OtaGraceDelayMs)
    /\ []((ota_pc = "check" /\ ota_cycles > 0) =>
              ota_delay_ms = OTA_CHECK_INTERVAL_SEC * 1000)
    /\ \A n \in 1..(MaxCycles - 1) :
          (ota_cycles = n /\ ota_ret # ESP_OK) ~> (ota_cycles = n + 1)

\* The third check, a failed one as the one before it, came after the
\* same delay as the second.
C13_Witness ==
    /\ ota_cycles = 3
    /\ ota_ret = ESP_FAIL
    /\ ota_pc = "sleep"
    /\ ota_graces = 1
    /\ ota_delay_ms = 300000

\* C14: whichever way the notification's delivery failed (no client, no
\* transport, a status other than 200 and 204), a cycle whose update
\* request returned ESP_OK ends with esp_restart, and a cycle with any other
\* result leaves the task at its inter-check delay or at the next check,
\* with nothing aborted.
C14_DeliveryNeverBlocks ==
    (ota_cycles > 0
     /\ webhook_result \in {"client_init_failed", "perform_failed",
                            "http_500"}) =>
        /\ OpCount(ota_log, "abort") = 0
        /\ (ota_ret = ESP_OK =>
              /\ ota_log[Len(ota_log)].op = "esp_restart"
              /\ ota_pc = "restarted")
        /\ (ota_ret # ESP_OK => ota_pc \in {"sleep", "check"})

\* A failed check whose notification found no HTTP client: the task is
\* through its delay and at the next check.
C14_Witness ==
    /\ ota_pc = "check"
    /\ ota_cycles = 1
    /\ ota_ret = ESP_FAIL
    /\ webhook_result = "client_init_failed"
    /\ ota_delay_ms = 300000

----------------------------------------------------------------------------
(* Claims about the network join, checked under SpecWifiFair.              *)

\* C15: when the driver ends every connect attempt with an event, the wait
\* of wifi_init_sta eventually returns and wifi_init_sta takes its
\* Connected or its Failed branch; and WIFI_FAIL_BIT is set without a
\* connection only when at most 1 + WIFI_MAXIMUM_RETRY calls of
\* esp_wifi_connect were made: the initial one and 5 reconnects.
C15_JoinBounded ==
    /\ []((WIFI_FAIL_BIT \in wifi_bits /\ WIFI_CONNECTED_BIT \notin wifi_bits)
             => wifi_connects <= 1 + WIFI_MAXIMUM_RETRY)
    /\ [](wifi_result \in {"none", "Connected", "Failed"})
    /\ (main_pc = "wifi_wait") ~>
          (main_pc = "bt_controller" /\ wifi_result \in {"Connected", "Failed"})

\* The join failed: the initial connect and five reconnects all ended in
\* a disconnect, and the wait returned with WIFI_FAIL_BIT.
C15_Witness ==
    /\ main_pc = "bt_controller"
    /\ wifi_result = "Failed"
    /\ wifi_bits = {WIFI_FAIL_BIT}
    /\ wifi_connects = 6
    /\ s_retry_num = 5

----------------------------------------------------------------------------
(* Claims about startup, checked under SpecMain.  boot_log holds the       *)
(* statements app_main has run in this boot.                               *)

\* In log, every b has an a before it.
Before(log, a, b) ==
    \A i \in 1..Len(log) : log[i] = b => \E j \in 1..(i-1) : log[j] = a

\* C11: app_main runs storage init, then the load of the identity, then the
\* radio-stack init, then start_ibeacon (which configures the payload),
\* then the network join, then the creation of the update task: the join
\* is attempted only after start_ibeacon has run.
C11_StartupOrder ==
    /\ Before(boot_log, "nvs_flash_init", "load_beacon_config_from_nvs")
    /\ Before(boot_log, "load_beacon_config_from_nvs",
              "esp_bt_controller_init")
    /\ Before(boot_log, "esp_bt_controller_init", "bluetooth_init")
    /\ Before(boot_log, "bluetooth_init", "start_ibeacon")
    /\ Before(boot_log, "start_ibeacon", "wifi_init_sta")
    /\ Before(boot_log, "wifi_init_sta", "xTaskCreate:ota_task")

\* C12: the update task exists only when the network join yielded
\* Connected, and the advertising payload is configured only when
\* gap_event_handler was registered.
C12_StepsGated ==
    /\ (ota_pc # "idle" => wifi_result = "Connected")
    /\ (Count(radio_log, CMD_CONFIG_ADV_DATA) > 0 => gap_registered)

\* C20: g_beacon_major and g_beacon_minor change only in app_main's load
\* step (Load and the first-boot Save); no step changes them once the
\* webhook task was created, gap_event_handler was registered or the
\* update task was created; and the identity the webhook task read is the
\* identity the device has.
C20_NoWriterOnceReadersExist ==
    /\ [][Identity' # Identity => main_pc = "load_config"]_vars
    /\ [][(webhook_task # "none" \/ gap_registered \/ ota_pc # "idle")
             => Identity' = Identity]_vars
    /\ [](webhook_ident # <<>> => webhook_ident = Identity)

\* The identity (77, 77) was loaded from flash; the webhook task has read
\* it, the GAP callback is registered and the update task exists.
C20_Witness ==
    /\ main_pc = "done"
    /\ Identity = <<77, 77>>
    /\ config_loaded
    /\ webhook_ident = <<77, 77>>
    /\ gap_registered
    /\ ota_pc = "grace"

----------------------------------------------------------------------------
(* Claims about the packet codec, checked under SpecCodec.                 *)

\* C16: the packet encoded from an identity has 30 bytes, is accepted by
\* esp_ble_is_ibeacon_packet as long as it is whole, and decodes to the
\* UUID, major, minor and power it was encoded from.
C16_CodecRoundTrip ==
    /\ (codec_pc = "recognize" /\ Len(codec_packet) \notin CodecShortLens) =>
           Len(codec_packet) = IBEACON_PACKET_LEN
    /\ (codec_pc = "rejected" => Len(codec_packet) # IBEACON_PACKET_LEN)
    /\ (codec_pc = "done" => (codec_ok /\ codec_out = codec_in))

\* The configured UUID with major 0x1234, minor 15 and power -59 went
\* through encode, recognize and decode.
C16_Witness ==
    /\ codec_pc = "done"
    /\ codec_ok
    /\ codec_in.major = 4660
    /\ codec_in.minor = DEFAULT_BEACON_MINOR
    /\ codec_in.power = -59
    /\ codec_in.uuid[1] = 237
    /\ codec_out = codec_in
    /\ Len(codec_packet) = IBEACON_PACKET_LEN

\* For every 16-bit value, ENDIAN_CHANGE_U16 gives a 16-bit value whose
\* bytes are the value's bytes in the other order, and applied twice it
\* gives the value back.
EndianChangeLaws ==
    \A x \in 0..65535 :
        /\ ENDIAN_CHANGE_U16(x) \in 0..65535
        /\ U16Bytes(ENDIAN_CHANGE_U16(x)) = <<U16Bytes(x)[2], U16Bytes(x)[1]>>
        /\ ENDIAN_CHANGE_U16(ENDIAN_CHANGE_U16(x)) = x

\* C17: in every encoded packet the major field (bytes 26 and 27) and the
\* minor field (bytes 28 and 29) hold the value's high byte first and its
\* low byte second; and ENDIAN_CHANGE_U16 swaps the two bytes of every
\* 16-bit value, stays within 16 bits and is its own inverse.
C17_BigEndianFields ==
    /\ Len(codec_packet) = IBEACON_PACKET_LEN =>
          /\ codec_packet[26] = codec_in.major \div 256
          /\ codec_packet[27] = codec_in.major % 256
          /\ codec_packet[28] = codec_in.minor \div 256
          /\ codec_packet[29] = codec_in.minor % 256
    /\ EndianChangeLaws

\* Major 0x1234 is encoded as 0x12 then 0x34, minor 0x0100 as 0x01 then
\* 0x00.
C17_Witness ==
    /\ codec_pc = "recognize"
    /\ Len(codec_packet) = IBEACON_PACKET_LEN
    /\ codec_in.major = 4660
    /\ codec_in.minor = 256
    /\ SubSeq(codec_packet, 26, 29) = <<18, 52, 1, 0>>

----------------------------------------------------------------------------
(* Claims about wifi_event_handler, checked under SpecWifi.                *)

\* For every event, every s_retry_num in 0..WIFI_MAXIMUM_RETRY and every
\* content of the event group, whether the driver would raise the event
\* then or not: the handler leaves s_retry_num in 0..WIFI_MAXIMUM_RETRY,
\* an address sets it to 0, a disconnect calls esp_wifi_connect iff
\* s_retry_num < WIFI_MAXIMUM_RETRY, and WIFI_FAIL_BIT is newly set only
\* by a disconnect at s_retry_num = WIFI_MAXIMUM_RETRY.
WifiHandlerLaws ==
    \A event \in WifiEvents, retry \in 0..WIFI_MAXIMUM_RETRY,
       bits \in SUBSET {WIFI_CONNECTED_BIT, WIFI_FAIL_BIT} :
        LET r == WifiHandlerResult(event, retry, bits) IN
        /\ r.retry \in 0..WIFI_MAXIMUM_RETRY
        /\ (event = IP_EVENT_STA_GOT_IP => r.retry = 0)
        /\ (event = WIFI_EVENT_STA_DISCONNECTED =>
              (r.connect <=> retry < WIFI_MAXIMUM_RETRY))
        /\ (WIFI_FAIL_BIT \in r.bits \ bits =>
              (event = WIFI_EVENT_STA_DISCONNECTED
               /\ retry = WIFI_MAXIMUM_RETRY))

\* C25: s_retry_num is always in 0..WIFI_MAXIMUM_RETRY; a step that handles
\* IP_EVENT_STA_GOT_IP leaves it 0; a step that handles
\* WIFI_EVENT_STA_DISCONNECTED calls esp_wifi_connect iff s_retry_num was
\* below WIFI_MAXIMUM_RETRY; and a step that sets WIFI_FAIL_BIT handles a
\* disconnect that found s_retry_num = WIFI_MAXIMUM_RETRY.
C25_RetryCounter ==
    /\ [](s_retry_num \in 0..WIFI_MAXIMUM_RETRY)
    /\ [](WifiHandlerLaws)
    /\ [][\A event \in WifiEvents :
            wifi_event_handler(event) =>
                /\ (event = IP_EVENT_STA_GOT_IP => s_retry_num' = 0)
                /\ (event = WIFI_EVENT_STA_DISCONNECTED =>
                      (wifi_connects' = wifi_connects + 1
                          <=> s_retry_num < WIFI_MAXIMUM_RETRY))]_vars
    /\ [][(WIFI_FAIL_BIT \in wifi_bits' /\ WIFI_FAIL_BIT \notin wifi_bits) =>
            /\ s_retry_num = WIFI_MAXIMUM_RETRY
            /\ wifi_event_handler(WIFI_EVENT_STA_DISCONNECTED)]_vars

\* The station got an address on its third attempt, lost the link, and
\* five reconnects failed: both bits are set, s_retry_num went 2, 0, 5.
C25_Witness ==
    /\ wifi_bits = {WIFI_CONNECTED_BIT, WIFI_FAIL_BIT}
    /\ s_retry_num = WIFI_MAXIMUM_RETRY
    /\ wifi_connects = 8
    /\ wifi_drops = 1

----------------------------------------------------------------------------
(* Claims about storage initialisation, checked under SpecMain.            *)

\* C21: nvs_flash_erase is called once when the first nvs_flash_init
\* returned ESP_ERR_NVS_NO_FREE_PAGES or ESP_ERR_NVS_NEW_VERSION_FOUND and
\* not otherwise; nvs_flash_init is called a second time only after a
\* successful erase and never a third time; app_main goes on to the load
\* of the identity iff the first init succeeded or the erase and the retry
\* both did, and is aborted otherwise; and once aborted, no statement of
\* app_main, no callback and no task runs.
C21_StorageInitRecovery ==
    /\ [][\A ret1 \in NvsInitResults, erase_ret \in {ESP_OK, ESP_FAIL},
             ret2 \in NvsInitResults :
            app_main_nvs_init(ret1, erase_ret, ret2) =>
                LET needs_erase == ret1 \in {ESP_ERR_NVS_NO_FREE_PAGES,
                                             ESP_ERR_NVS_NEW_VERSION_FOUND}
                IN  /\ Count(boot_log', "nvs_flash_erase") =
                          (IF needs_erase THEN 1 ELSE 0)
                    /\ Count(boot_log', "nvs_flash_init") =
                          (IF needs_erase /\ erase_ret = ESP_OK
                           THEN 2 ELSE 1)
                    /\ (main_pc' = "load_config" <=>
                          \/ ret1 = ESP_OK
                          \/ (needs_erase /\ erase_ret = ESP_OK
                              /\ ret2 = ESP_OK))
                    /\ main_pc' \in {"load_config", "aborted"}]_vars
    /\ [][main_pc = "aborted" =>
            UNCHANGED <<main_pc, boot_log, identVars, storeVars, gapVars,
                        otaVars, wifiVars>>]_vars
    /\ []((main_pc = "aborted"
            /\ Count(boot_log, "load_beacon_config_from_nvs") = 0) =>
              /\ \A i \in 1..Len(boot_log) :
                    boot_log[i] \in {"nvs_flash_init", "nvs_flash_erase"}
              /\ radio_log = <<>>
              /\ ota_pc = "idle")

\* The first init asked for an erase, the erase succeeded and emptied
\* flash, the retry failed: app_main is aborted after three calls.
C21_Witness ==
    /\ main_pc = "aborted"
    /\ boot_log = <<"nvs_flash_init", "nvs_flash_erase", "nvs_flash_init">>
    /\ nvs_ns = FALSE
    /\ radio_log = <<>>
    /\ ota_pc = "idle"

----------------------------------------------------------------------------
(* Claims about the device name, checked under SpecMain.                   *)

\* The value Load gives a field for the flash it finds.
LoadedField(key, default) ==
    IF nvs_ns /\ key \in DOMAIN nvs_kv THEN nvs_kv[key] ELSE default

\* C22: whenever a device name is set, the load of the identity has run
\* in this boot and the name is "iBeacon-<major>-<minor>" with the decimal
\* values the load took from flash (the default for a value flash does not
\* hold), which are the identity's; and whenever the advertising payload
\* has been configured, the device name was set before.
C22_DeviceNameFromLoadedIdentity ==
    /\ (device_name # "" =>
          /\ Count(boot_log, "load_beacon_config_from_nvs") = 1
          /\ Identity = <<LoadedField(NVS_KEY_MAJOR, DEFAULT_BEACON_MAJOR),
                          LoadedField(NVS_KEY_MINOR, DEFAULT_BEACON_MINOR)>>
          /\ device_name =
                "iBeacon-"
                \o ToString(LoadedField(NVS_KEY_MAJOR, DEFAULT_BEACON_MAJOR))
                \o "-"
                \o ToString(LoadedField(NVS_KEY_MINOR, DEFAULT_BEACON_MINOR)))
    /\ (Count(radio_log, CMD_CONFIG_ADV_DATA) > 0 =>
          /\ device_name # ""
          /\ Before(boot_log, "bluetooth_init", "start_ibeacon"))

\* Flash held major 77 and no minor: the payload is configured and the
\* name is iBeacon-77-15.
C22_Witness ==
    /\ Count(radio_log, CMD_CONFIG_ADV_DATA) = 1
    /\ nvs_ns
    /\ DOMAIN nvs_kv = {NVS_KEY_MAJOR}
    /\ nvs_kv[NVS_KEY_MAJOR] = 77
    /\ device_name = "iBeacon-77-15"

----------------------------------------------------------------------------
(* Claims about parse_uuid_string, checked under SpecUuid.                 *)

UuidIsCanonical(str) ==
    /\ Len(str) = 36
    /\ \A n \in 1..36 :
           IF n \in {9, 14, 19, 24} THEN str[n] = "-" ELSE IsHex(str[n])

\* C23: for a canonical 36-character string (8-4-4-4-12 hex digits),
\* parse_uuid_string writes uuid_bytes[0], ..., uuid_bytes[15] once each
\* in this order and nothing else, and uuid_bytes[k] is the value of the
\* k-th pair of hex digits of the string with its hyphens left out.
C23_CanonicalUuidParsed ==
    (uuid_pc = "parsed" /\ UuidIsCanonical(uuid_str)) =>
        /\ uuid_writes = [n \in 1..16 |-> n - 1]
        /\ DOMAIN uuid_bytes = 0..15
        /\ \A k \in 0..15 :
               uuid_bytes[k] =
                   16 * HexVal(UuidDigits(uuid_str)[2 * k + 1])
                   + HexVal(UuidDigits(uuid_str)[2 * k + 2])

\* The firmware's UUID parsed into a buffer that held garbage.
C23_Witness ==
    /\ uuid_pc = "parsed"
    /\ uuid_str = BEACON_UUID_STRING
    /\ uuid_writes = <<0, 1, 2, 3, 4, 5, 6, 7, 8, 9, 10, 11, 12, 13, 14, 15>>
    /\ [n \in 1..16 |-> uuid_bytes[n - 1]] =
           <<237, 23, 168, 3, 209, 172, 79, 4, 162, 240, 120, 2, 180, 201,
             199, 12>>

\* C24: for every input, parse_uuid_string reads no character at an index
\* beyond the terminator (index Len(uuid_str)) and writes no byte outside
\* uuid_bytes[0..15].
C24_UuidAccessInBounds ==
    uuid_pc = "parsed" =>
        /\ \A i \in uuid_reads : i <= Len(uuid_str)
        /\ \A n \in 1..Len(uuid_writes) : uuid_writes[n] \in 0..15
        /\ DOMAIN uuid_bytes = 0..15

====
